---- MODULE Spec2Model ----
(***************************************************************************)
(* Action registration and dispatch pipeline of CloudFunctionService       *)
(* (pip_services3_gcp/services/CloudFunctionService.py) with the           *)
(* registration routine of DummyCloudFunctionService.                      *)
(***************************************************************************)
EXTENDS Integers, Sequences, FiniteSets, TLC

VARIABLES name, opened, actions, interceptors, hung, origins, lastOp, openNames

vars == <<name, opened, actions, interceptors, hung, origins, lastOp, openNames>>

(* ---------------------------------------------------------------- bounds *)

\* Direct _register_action / _register_action_with_auth calls kept in the list.
MaxDirect == 1

\* Interceptors kept in the interceptor list.
MaxInterceptors == 2

\* Iterations of a loop that are followed before it is declared divergent.
LoopFuel == 2

\* Depth of nested Python calls before the interpreter raises RecursionError.
RecursionLimit == 4

(* ------------------------------------------------------- optional values *)

\* Python None and a present value.
None == [some |-> FALSE]

Some(v) == [some |-> TRUE, v |-> v]

(* ---------------------------------------------------------------- inputs *)

\* Names given to CloudFunctionService.__init__.
ServiceNames == {None, Some(""), Some("dummies")}

\* Interceptor functions handed to _register_interceptor, each at most once.
InterceptorIds == {"A", "B"}

\* Authorization functions handed to _register_action_with_auth:
\* "deny" returns its own result without calling next, "allow" returns next(req).
Authorizers == {"deny", "allow"}

\* A schema: the top-level parameters it requires, the body fields it requires
\* when a body is present, and the status carried by its validation error.
Schema(required, bodyRequired, errStatus) ==
    Some([required |-> required, bodyRequired |-> bodyRequired, errStatus |-> errStatus])

\* A request: query arguments and parsed JSON body (None, or the set of its fields).
Request(args, json) == Some([args |-> args, json |-> json])

Requests ==
    { None,
      Request({}, None),
      Request({}, Some({})),
      Request({}, Some({"dummy"})),
      Request({"id"}, Some({"dummy_id"})) }

\* Registrations made directly (outside register()).
DirectRegistrations ==
    { [name |-> "echo", schema |-> None, action |-> "echo"],
      [name |-> "strict", schema |-> Schema({"id"}, {}, None), action |-> "echo"] }

(* ------------------------------------------------------------- outcomes *)

Return(v) == [kind |-> "return", value |-> v]

Raise(e) == [kind |-> "raise", value |-> [error |-> e]]

Event(ev, who, req) == [ev |-> ev, who |-> who, req |-> req]

(* ------------------------------------------------------- error composer *)

ErrorFields == {"code", "status", "message", "name", "details", "component", "stack", "cause"}

basic_fillers ==
    [k \in ErrorFields |->
        CASE k = "code" -> Some("Undefined")
          [] k = "status" -> Some(500)
          [] k = "message" -> Some("Unknown error")
          [] OTHER -> None]

\* ErrorDescriptionFactory.create applied to an application error: the
\* description carries the error's fields.
ErrorDescriptionFactory_create(error) == error

\* A composer that replaces every field by its filler, set or not.
_compose_error_overwrite(error) ==
    LET description == ErrorDescriptionFactory_create(basic_fillers)
    IN  [kind |-> "response", status |-> description["status"].v,
         headers |-> [ContentType |-> "application/json"], body |-> description]

\* A composer that answers 500 whatever the description's status.
_compose_error_status500(error) ==
    LET filled == IF error = None THEN basic_fillers
                  ELSE [k \in ErrorFields |->
                          IF error.v[k] = None THEN basic_fillers[k] ELSE error.v[k]]
        description == ErrorDescriptionFactory_create(filled)
    IN  [kind |-> "response", status |-> 500,
         headers |-> [ContentType |-> "application/json"], body |-> description]

_compose_error(error) ==
    LET filled == IF error = None THEN basic_fillers
                  ELSE [k \in ErrorFields |->
                          IF error.v[k] = None THEN basic_fillers[k] ELSE error.v[k]]
        description == ErrorDescriptionFactory_create(filled)
    IN  [kind |-> "response", status |-> description["status"].v,
         headers |-> [ContentType |-> "application/json"], body |-> description]

(* ------------------------------------------------------------ validation *)

\* params = req.args.to_dict(); params.update({'body': req.json}): the
\* parameters that carry a value.
MergedParams(req) ==
    req.v.args \cup (IF req.v.json = None THEN {} ELSE {"body"})

\* schema.validate_and_return_exception(correlation_id, params, False): None
\* when the parameters satisfy the schema, else the validation error.
validate_and_return_exception(schema, req) ==
    IF /\ schema.v.required \subseteq MergedParams(req)
       /\ (req.v.json = None \/ schema.v.bodyRequired \subseteq req.v.json.v)
    THEN None
    ELSE Some([k \in ErrorFields |->
                 CASE k = "code" -> Some("INVALID_DATA")
                   [] k = "status" -> schema.v.errStatus
                   [] k = "message" -> Some("Validation failed")
                   [] OTHER -> None])

\* `if schema and req`: whether the wrapper validates at all.
Validates(schema, req) == schema # None /\ req # None

\* `if err is not None`: whether the wrapper stops at the validation error.
ValidationFails_inverted(err) == err = None

ValidationFails(err) == err # None

\* `return self._compose_error(err)` under the throw policy instead.
OnValidationError_throw(err) == Raise("ValidationException")

OnValidationError(err) == Return(_compose_error(err))

(* -------------------------------------------------------------- handlers *)

\* Handlers of the test service and the echo handler: what they do with a request.
HandlerOutcome(h, req) ==
    IF req = None \/ req.v.json = None THEN Raise("AttributeError")
    ELSE IF h = "echo" THEN Return([kind |-> "body", body |-> req.v.json])
    ELSE IF h \in {"create", "update"} /\ "dummy" \notin req.v.json.v THEN Raise("TypeError")
    ELSE Return([kind |-> "dummy", by |-> h])

\* What an authorization function answers when it does not call next.
Unauthorized == [kind |-> "response", status |-> 401]

(* -------------------------------------------------------- handler values *)

\* A plain handler function.
Handler(h) == [kind |-> "handler", h |-> h]

\* The action_wrapper closure built by _apply_validation.
_apply_validation_skip(schema, action) == action

_apply_validation(schema, action) ==
    [kind |-> "validation", schema |-> schema, action |-> action]

\* `def action_wrapper(req): return authorize(req, action_wrapper)`: the second
\* argument is read from the enclosing variable when the wrapper is called.
AuthWrapper(authorize) == [kind |-> "authorize", authorize |-> authorize]

\* `lambda req: action_wrapper(req)` over the final value of the variable.
Lambda(action_wrapper) == [kind |-> "lambda", cell |-> action_wrapper]

\* The wrapper factory defined in the body of the loop of _apply_interceptors.
Factory(interceptor) == [kind |-> "factory", interceptor |-> interceptor]

\* A call that never returns.
Diverges == [kind |-> "diverges"]

(* ---------------------------------------------------------- registration *)

\* _apply_interceptors: `while index >= 0` with a body that assigns interceptor
\* and action_wrapper and leaves index as it was.
RECURSIVE ApplyLoop(_, _, _)
ApplyLoop(index, action_wrapper, fuel) ==
    IF index >= 0
    THEN IF fuel = 0 THEN Diverges
         ELSE ApplyLoop(index, Factory(interceptors[index + 1]), fuel - 1)
    ELSE action_wrapper

_apply_interceptors(action) == ApplyLoop(Len(interceptors) - 1, action, LoopFuel)

_generate_action_cmd_truthy(n) ==
    IF name # None /\ name.v # "" THEN name.v \o "." \o n ELSE n

_generate_action_cmd(n) ==
    IF name # None THEN name.v \o "." \o n ELSE n

CloudFunctionAction(cmd, schema, action) ==
    [cmd |-> cmd, schema |-> schema, action |-> action]

\* The final value of the local variable action_wrapper of _register_action.
ActionWrapper(schema, action) ==
    _apply_interceptors(_apply_validation(schema, action))

\* The final value of the local variable action_wrapper of
\* _register_action_with_auth: the validation wrapper is overwritten by the
\* authorization wrapper before the interceptors are applied.
AuthActionWrapper_validation_first(schema, authorize, action) ==
    _apply_interceptors(_apply_validation(schema, AuthWrapper(authorize)))

AuthActionWrapper(schema, authorize, action) ==
    _apply_interceptors(AuthWrapper(authorize))

\* The arguments of one registration call, remembered beside the entry it made.
Origin(method, n, schema, authorize, action) ==
    [method |-> method, name |-> n, schema |-> schema, authorize |-> authorize,
     action |-> action]

\* The registry after a registration call: the action appended when the call
\* returns, the call marked as never returning when the wrapping diverges.
Registered(st, origin, action_wrapper) ==
    IF st.hung THEN st
    ELSE IF action_wrapper = Diverges THEN [st EXCEPT !.hung = TRUE]
    ELSE [st EXCEPT !.actions =
            Append(@, CloudFunctionAction(_generate_action_cmd(origin.name),
                                          origin.schema, Lambda(action_wrapper))),
                    !.origins = Append(@, origin)]

_register_action(st, n, schema, action) ==
    Registered(st, Origin("_register_action", n, schema, "", action),
               ActionWrapper(schema, Handler(action)))

_register_action_with_auth(st, n, schema, authorize, action) ==
    Registered(st, Origin("_register_action_with_auth", n, schema, authorize, action),
               AuthActionWrapper(schema, authorize, Handler(action)))

\* The registry a call starts from.
Registry == [actions |-> actions, origins |-> origins, hung |-> FALSE]

\* The calls DummyCloudFunctionService.register makes, in order.
RegisterRoutine ==
    << [name |-> "get_dummies", schema |-> Schema({}, {}, Some(400)),
        action |-> "get_page_by_filter"],
       [name |-> "get_dummy_by_id", schema |-> Schema({}, {}, Some(400)),
        action |-> "get_one_by_id"],
       [name |-> "create_dummy", schema |-> Schema({}, {"dummy"}, Some(400)),
        action |-> "create"],
       [name |-> "update_dummy", schema |-> Schema({}, {"dummy"}, Some(400)),
        action |-> "update"],
       [name |-> "delete_dummy", schema |-> Schema({}, {"dummy_id"}, Some(400)),
        action |-> "delete_by_id"] >>

RECURSIVE RegisterFrom(_, _)
RegisterFrom(st, i) ==
    IF i > Len(RegisterRoutine) THEN st
    ELSE RegisterFrom(_register_action(st, RegisterRoutine[i].name,
                                       RegisterRoutine[i].schema,
                                       RegisterRoutine[i].action), i + 1)

register(st) == RegisterFrom(st, 1)

(* -------------------------------------------------------------- dispatch *)

\* Calling a handler value f with req; cell is the variable action_wrapper the
\* closures of the registered action read. The result is the events observed,
\* in order, and how the call ended.
RECURSIVE Call(_, _, _, _)
Call(f, req, cell, depth) ==
    IF depth > RecursionLimit THEN [trace |-> <<>>, out |-> Raise("RecursionError")]
    ELSE CASE f.kind = "lambda" -> Call(f.cell, req, f.cell, depth + 1)
           [] f.kind = "handler" ->
                [trace |-> <<Event("handler", f.h, req)>>, out |-> HandlerOutcome(f.h, req)]
           [] f.kind = "validation" ->
                IF Validates(f.schema, req)
                THEN LET err == validate_and_return_exception(f.schema, req)
                         ev == <<Event("validate", "schema", req)>>
                     IN  IF ValidationFails(err)
                         THEN [trace |-> ev, out |-> OnValidationError(err)]
                         ELSE LET r == Call(f.action, req, cell, depth + 1)
                              IN  [trace |-> ev \o r.trace, out |-> r.out]
                ELSE Call(f.action, req, cell, depth + 1)
           [] f.kind = "authorize" ->
                LET ev == <<Event("authorize", f.authorize, req)>>
                IN  IF f.authorize = "deny"
                    THEN [trace |-> ev, out |-> Return(Unauthorized)]
                    ELSE LET r == Call(cell, req, cell, depth + 1)
                         IN  [trace |-> ev \o r.trace, out |-> r.out]

(* ----------------------------------------------------------------- state *)

Names(acts) == [i \in 1..Len(acts) |-> acts[i].cmd]

\* Entries of the action list that register() did not put there.
NumDirect == Len(actions) - (IF opened THEN Len(RegisterRoutine) ELSE 0)

\* The record of the latest call: what was called, with what, from which
\* state, and what the caller saw.
NoOp ==
    [op |-> "init", opened0 |-> FALSE, n0 |-> 0, i0 |-> 0, registered |-> FALSE,
     afterClose |-> FALSE, discarded |-> 0,
     reg |-> None, authorize |-> "", idx |-> 0, req |-> None,
     trace |-> <<>>, out |-> None]

OpRecord(op) ==
    [NoOp EXCEPT !.op = op, !.opened0 = opened, !.n0 = Len(actions),
                 !.i0 = Len(interceptors)]

\* The record of an open that calls register(): whether it directly follows a
\* close of an open service, and how many interceptors that close discarded.
OpenRecord ==
    [OpRecord("open") EXCEPT
        !.registered = TRUE,
        !.afterClose = (lastOp.op = "close" /\ lastOp.opened0),
        !.discarded = IF lastOp.op = "close" /\ lastOp.opened0 THEN lastOp.i0 ELSE 0]

Init ==
    /\ name \in ServiceNames
    /\ opened = FALSE
    /\ actions = <<>>
    /\ interceptors = <<>>
    /\ hung = FALSE
    /\ origins = <<>>
    /\ lastOp = NoOp
    /\ openNames = None

(* ------------------------------------------------------------ operations *)

open_no_guard ==
    /\ ~hung
    /\ LET st == register(Registry)
       IN  /\ actions' = st.actions
           /\ origins' = st.origins
           /\ hung' = st.hung
           /\ opened' = (IF st.hung THEN opened ELSE TRUE)
           /\ openNames' = IF st.hung THEN openNames
                           ELSE Some([names |-> Names(st.actions),
                                      fromEmpty |-> actions = <<>>])
           /\ lastOp' = OpenRecord
    /\ UNCHANGED <<name, interceptors>>

open ==
    /\ ~hung
    /\ IF opened
       THEN /\ lastOp' = OpRecord("open")
            /\ UNCHANGED <<actions, origins, hung, opened, openNames>>
       ELSE LET st == register(Registry)
            IN  /\ actions' = st.actions
                /\ origins' = st.origins
                /\ hung' = st.hung
                /\ opened' = (IF st.hung THEN opened ELSE TRUE)
                /\ openNames' = IF st.hung THEN openNames
                                ELSE Some([names |-> Names(st.actions),
                                           fromEmpty |-> actions = <<>>])
                /\ lastOp' = OpenRecord
    /\ UNCHANGED <<name, interceptors>>

close_keep_actions ==
    /\ ~hung
    /\ IF ~opened
       THEN UNCHANGED <<opened, actions, origins, interceptors>>
       ELSE /\ opened' = FALSE
            /\ interceptors' = <<>>
            /\ UNCHANGED <<actions, origins>>
    /\ lastOp' = OpRecord("close")
    /\ UNCHANGED <<name, hung, openNames>>

close_keep_interceptors ==
    /\ ~hung
    /\ IF ~opened
       THEN UNCHANGED <<opened, actions, origins, interceptors>>
       ELSE /\ opened' = FALSE
            /\ actions' = <<>>
            /\ origins' = <<>>
            /\ UNCHANGED interceptors
    /\ lastOp' = OpRecord("close")
    /\ UNCHANGED <<name, hung, openNames>>

close ==
    /\ ~hung
    /\ IF ~opened
       THEN UNCHANGED <<opened, actions, origins, interceptors>>
       ELSE /\ opened' = FALSE
            /\ actions' = <<>>
            /\ origins' = <<>>
            /\ interceptors' = <<>>
    /\ lastOp' = OpRecord("close")
    /\ UNCHANGED <<name, hung, openNames>>

\* A direct call of _register_action.
RegisterAction ==
    /\ ~hung
    /\ NumDirect < MaxDirect
    /\ \E r \in DirectRegistrations :
         LET st == _register_action(Registry, r.name, r.schema, r.action)
         IN  /\ actions' = st.actions
             /\ origins' = st.origins
             /\ hung' = st.hung
             /\ lastOp' = [OpRecord("_register_action") EXCEPT !.reg = Some(r)]
    /\ UNCHANGED <<name, opened, interceptors, openNames>>

\* A direct call of _register_action_with_auth.
RegisterActionWithAuth ==
    /\ ~hung
    /\ NumDirect < MaxDirect
    /\ \E r \in DirectRegistrations, a \in Authorizers :
         LET st == _register_action_with_auth(Registry, r.name, r.schema, a, r.action)
         IN  /\ actions' = st.actions
             /\ origins' = st.origins
             /\ hung' = st.hung
             /\ lastOp' = [OpRecord("_register_action_with_auth")
                             EXCEPT !.reg = Some(r), !.authorize = a]
    /\ UNCHANGED <<name, opened, interceptors, openNames>>

\* _register_interceptor.
RegisterInterceptor ==
    /\ ~hung
    /\ Len(interceptors) < MaxInterceptors
    /\ \E i \in InterceptorIds \ {interceptors[k] : k \in 1..Len(interceptors)} :
         /\ interceptors' = Append(interceptors, i)
         /\ lastOp' = [OpRecord("_register_interceptor") EXCEPT !.authorize = i]
    /\ UNCHANGED <<name, opened, actions, origins, hung, openNames>>

\* A dispatch that drops the entry it called from the action list.
Dispatch_drops_entry ==
    /\ ~hung
    /\ \E i \in 1..Len(actions), req \in Requests :
         LET r == Call(actions[i].action, req, actions[i].action, 0)
         IN  /\ lastOp' = [OpRecord("dispatch") EXCEPT !.idx = i, !.req = req,
                             !.trace = r.trace, !.out = Some(r.out)]
             /\ actions' = SubSeq(actions, 1, i - 1) \o SubSeq(actions, i + 1, Len(actions))
             /\ origins' = SubSeq(origins, 1, i - 1) \o SubSeq(origins, i + 1, Len(origins))
    /\ UNCHANGED <<name, opened, interceptors, hung, openNames>>

\* The routing layer calls the action of one entry of get_actions().
Dispatch ==
    /\ ~hung
    /\ \E i \in 1..Len(actions), req \in Requests :
         LET r == Call(actions[i].action, req, actions[i].action, 0)
         IN  lastOp' = [OpRecord("dispatch") EXCEPT !.idx = i, !.req = req,
                          !.trace = r.trace, !.out = Some(r.out)]
    /\ UNCHANGED <<name, opened, actions, origins, interceptors, hung, openNames>>

Next ==
    \/ open
    \/ close
    \/ RegisterAction
    \/ RegisterActionWithAuth
    \/ RegisterInterceptor
    \/ Dispatch

Spec == Init /\ [][Next]_vars

(* -------------------------------------------------- error composer calls *)

\* The value an error object carries in a field of its instance dictionary
\* other than status.
FieldValue(k) ==
    CASE k = "code" -> "NOT_FOUND"
      [] k = "message" -> "Dummy not found"
      [] OTHER -> "set"

\* The errors handed to _compose_error: no error, or an error object with
\* each field set or unset.
Errors ==
    {None} \cup
    {Some([k \in ErrorFields |->
            IF k \notin set THEN None
            ELSE IF k = "status" THEN Some(status) ELSE Some(FieldValue(k))]) :
        set \in SUBSET ErrorFields, status \in {404, 400}}

\* A direct call of _compose_error.
ComposeError ==
    /\ \E error \in Errors :
         lastOp' = [op |-> "_compose_error", error |-> error,
                    out |-> _compose_error(error)]
    /\ UNCHANGED <<name, opened, actions, interceptors, hung, origins, openNames>>

NextErr == ComposeError

SpecErr == Init /\ [][NextErr]_vars

(* --------------------------------------------------- command-set adapter *)

MaxCommands == 2

\* The names of the commands DummyCommandSet adds, in its order.
DummyCommandSet ==
    <<"get_dummies", "get_dummy_by_id", "create_dummy", "update_dummy", "delete_dummy">>

CommandNames == {DummyCommandSet[i] : i \in 1..Len(DummyCommandSet)}

\* command_set.get_commands(): the commands of DummyCommandSet, or any short
\* list of distinct commands.
CommandSets ==
    {DummyCommandSet} \cup
    {cs \in UNION {[1..n -> CommandNames] : n \in 0..MaxCommands} :
        \A i, j \in 1..Len(cs) : i # j => cs[i] # cs[j]}

\* The values a command may return: None, a value of a type that
\* __to_response_format leaves alone, an object with or without to_dict and
\* to_json, or a DataPage (which has to_json) with no items, items that are
\* dicts, or items that are objects.
PassThroughTypes == {"int", "str", "dict", "tuple", "list", "bytes", "float", "Response"}

Value(type, to_dict, to_json, data) ==
    [type |-> type, to_dict |-> to_dict, to_json |-> to_json, data |-> data]

NoneResult == Value("NoneType", FALSE, FALSE, "")

Results ==
    {NoneResult}
    \cup {Value(t, FALSE, FALSE, "") : t \in PassThroughTypes}
    \cup {Value("object", d, j, "") : d \in BOOLEAN, j \in BOOLEAN}
    \cup {Value("DataPage", FALSE, TRUE, data) : data \in {"empty", "dicts", "objects"}}

\* The value `'', 204`.
Empty204 == [type |-> "tuple", body |-> "", status |-> 204]

\* The value a conversion method makes of res.
Converted(via, res) == [type |-> "converted", via |-> via, of |-> res]

\* Whether __to_response_format calls a conversion method on res.
Converts(res) == res # NoneResult /\ res.type \notin PassThroughTypes

\* A normalisation that asks for to_json before to_dict and answers 200 for None.
__to_response_format_json_first(res) ==
    IF res = NoneResult THEN [type |-> "tuple", body |-> "", status |-> 200]
    ELSE IF res.type \in PassThroughTypes THEN res
    ELSE IF res.to_json THEN Converted("to_json", res)
    ELSE IF res.to_dict THEN Converted("to_dict", res)
    ELSE Converted("JsonConverter.to_json", res)

__to_response_format(res) ==
    IF res = NoneResult THEN Empty204
    ELSE IF res.type \in PassThroughTypes THEN res
    ELSE IF res.to_dict THEN Converted("to_dict", res)
    ELSE IF res.to_json
         THEN IF res.type = "DataPage" /\ res.data = "objects"
              THEN Converted("to_json", [res EXCEPT !.data = "dicts"])
              ELSE Converted("to_json", res)
    ELSE Converted("JsonConverter.to_json", res)

\* The exceptions a command raises: an exception with no error field set, or
\* an application error with status, code and message set.
PlainException == Some([k \in ErrorFields |-> None])

NotFoundException ==
    Some([k \in ErrorFields |->
            CASE k = "status" -> Some(404)
              [] k = "code" -> Some("NOT_FOUND")
              [] k = "message" -> Some("Dummy not found")
              [] OTHER -> None])

\* What the collaborators of one invocation do: whether reading the request
\* and creating the timing raises, whether command.execute returns result,
\* raises error (an Exception) or exits (raises SystemExit, which is not an
\* Exception), whether the conversion of the result raises, and whether
\* composing the error raises.
Behaviour(preamble, executes, result, error, conv, compose) ==
    [preamble |-> preamble, executes |-> executes, result |-> result,
     error |-> error, conv |-> conv, compose |-> compose]

NoBehaviour == Behaviour("return", "return", NoneResult, PlainException, FALSE, FALSE)

Behaviours ==
    {Behaviour("raise", "return", NoneResult, PlainException, FALSE, FALSE)}
    \cup {Behaviour("return", "exit", NoneResult, PlainException, FALSE, FALSE)}
    \cup {Behaviour("return", "raise", NoneResult, e, FALSE, c) :
            e \in {PlainException, NotFoundException}, c \in BOOLEAN}
    \cup {Behaviour("return", "return", r, PlainException, FALSE, FALSE) : r \in Results}
    \cup {Behaviour("return", "return", r, PlainException, TRUE, c) :
            r \in {x \in Results : Converts(x)}, c \in BOOLEAN}

\* The requests made to command actions.
CommandRequests ==
    {Some(Request({}, Some({"dummy_id"}))), Some(Request({}, Some({"dummy"})))}

\* CloudFunction._compose_error: the error composer of the container.
CloudFunction_compose_error(error) == _compose_error(error)

\* An except block that composes the response before it reports the failure.
ExceptBlock_compose_first(command, req, env, e) ==
    [trace |-> <<Event("_compose_error", command, req),
                 Event("end_failure", command, req)>>,
     out |-> IF env.compose THEN Raise("ComposeError")
             ELSE Return(CloudFunction_compose_error(e))]

\* An except block that reports the failure and raises the exception again.
ExceptBlock_reraise(command, req, env, e) ==
    [trace |-> <<Event("end_failure", command, req)>>,
     out |-> Raise("CommandError")]

\* `except Exception as e`: timing.end_failure(e), then the composed response
\* is returned, unless composing raises.
ExceptBlock(command, req, env, e) ==
    [trace |-> <<Event("end_failure", command, req),
                 Event("_compose_error", command, req)>>,
     out |-> IF env.compose THEN Raise("ComposeError")
             ELSE Return(CloudFunction_compose_error(e))]

\* A finally block that is left out.
FinallyBlock_skipped(command, req) == <<>>

\* `finally: timing.end_timing()`.
FinallyBlock(command, req) == <<Event("end_timing", command, req)>>

\* One call of the closure `action` that wrapper(command) returns.
command_action(command, req, env) ==
    IF env.preamble = "raise"
    THEN [trace |-> <<>>, out |-> Raise("AttributeError")]
    ELSE
    LET instrument == <<Event("_instrument", command, req)>>
        execute == <<Event("execute", command, req)>>
        convert == <<Event("__to_response_format", command, req)>>
        body ==
            IF env.executes = "exit"
            THEN [trace |-> execute, out |-> Raise("SystemExit")]
            ELSE IF env.executes = "raise"
            THEN LET x == ExceptBlock(command, req, env, env.error)
                 IN  [trace |-> execute \o x.trace, out |-> x.out]
            ELSE IF Converts(env.result) /\ env.conv
            THEN LET x == ExceptBlock(command, req, env, PlainException)
                 IN  [trace |-> execute \o convert \o x.trace, out |-> x.out]
            ELSE [trace |-> execute \o convert,
                  out |-> Return(__to_response_format(env.result))]
    IN  [trace |-> instrument \o body.trace \o FinallyBlock(command, req),
         out |-> body.out]

\* A wrapper whose closure is bound to one command whatever its argument.
wrapper_same_command(command) == [kind |-> "command", command |-> "delete_dummy"]

\* wrapper(command): the closure `action` with command bound to the argument.
wrapper(command) == [kind |-> "command", command |-> command]

\* CloudFunction._register_action: the registration of the container.
CloudFunction_register_action(st, n, schema, action) ==
    Registered(st, Origin("CloudFunction._register_action", n, schema, "", n),
               ActionWrapper(schema, action))

\* The loop of __register_command_set from index i on.
RECURSIVE RegisterCommandsFrom(_, _, _)
RegisterCommandsFrom(st, commands, i) ==
    IF i > Len(commands) THEN st
    ELSE RegisterCommandsFrom(
            CloudFunction_register_action(st, commands[i], None, wrapper(commands[i])),
            commands, i + 1)

__register_command_set(st, command_set) == RegisterCommandsFrom(st, command_set, 1)

\* The record of the latest call on the container.
CommandRecord(op, commands) ==
    [op |-> op, commands |-> commands, idx |-> 0, req |-> None,
     env |-> NoBehaviour, trace |-> <<>>, out |-> None]

InitCommandable ==
    /\ Init
    /\ name = None

\* CommandableCloudFunction.register(), called once on a new container.
RegisterCommandSet ==
    /\ lastOp.op = "init"
    /\ \E command_set \in CommandSets :
         LET st == __register_command_set(Registry, command_set)
         IN  /\ actions' = st.actions
             /\ origins' = st.origins
             /\ hung' = st.hung
             /\ lastOp' = CommandRecord("register", command_set)
    /\ UNCHANGED <<name, opened, interceptors, openNames>>

\* The routing layer calls the action registered for one command: with no
\* schema the validation wrapper calls the closure at once.
InvokeCommand ==
    /\ lastOp.op \in {"register", "invoke"}
    /\ \E i \in 1..Len(actions), req \in CommandRequests, env \in Behaviours :
         LET bound == actions[i].action.cell.action
             r == command_action(bound.command, req, env)
         IN  lastOp' = [CommandRecord("invoke", lastOp.commands) EXCEPT
                          !.idx = i, !.req = req, !.env = env,
                          !.trace = r.trace, !.out = Some(r.out)]
    /\ UNCHANGED <<name, opened, actions, origins, interceptors, hung, openNames>>

NextCommandable ==
    \/ RegisterCommandSet
    \/ InvokeCommand

SpecCommandable == InitCommandable /\ [][NextCommandable]_vars

(* ------------------------------------------------- held action sequences *)

\* A reference a caller holds to a list object: whether it is the object the
\* service's __actions is bound to, and the entries of the object.
Ref(current, list) == Some([current |-> current, list |-> list])

\* The held reference after a call that leaves the action list as acts: a
\* reference to the service's own list object shows what was appended to it.
Held(ref, acts) ==
    IF ref # None /\ ref.v.current THEN Ref(TRUE, acts) ELSE ref

\* The held reference after `self.__actions = []`: the object it points to
\* keeps its entries and is no longer the service's list.
Rebound(ref, acts) ==
    IF ref # None /\ ref.v.current THEN Ref(FALSE, acts) ELSE ref

\* The record of the latest call and the reference the caller holds.
LiveRecord(op, ref) == [op |-> op, ref |-> ref]

InitLive ==
    /\ name \in ServiceNames
    /\ opened = FALSE
    /\ actions = <<>>
    /\ interceptors = <<>>
    /\ hung = FALSE
    /\ origins = <<>>
    /\ lastOp = LiveRecord("init", None)
    /\ openNames = None

\* get_actions(): the caller now holds the service's list object.
GetActions ==
    /\ lastOp' = LiveRecord("get_actions", Ref(TRUE, actions))
    /\ UNCHANGED <<name, opened, actions, origins, interceptors, hung, openNames>>

\* open, seen by the holder of a reference: register() appends to the list
\* object __actions is bound to.
LiveOpen ==
    /\ IF opened
       THEN /\ lastOp' = LiveRecord("open", lastOp.ref)
            /\ UNCHANGED <<actions, origins, opened>>
       ELSE LET st == register(Registry)
            IN  /\ actions' = st.actions
                /\ origins' = st.origins
                /\ opened' = TRUE
                /\ lastOp' = LiveRecord("open", Held(lastOp.ref, st.actions))
    /\ UNCHANGED <<name, interceptors, hung, openNames>>

\* close, seen by the holder of a reference: __actions is bound to a new
\* empty list.
LiveClose ==
    /\ IF ~opened
       THEN /\ lastOp' = LiveRecord("close", lastOp.ref)
            /\ UNCHANGED <<opened, actions, origins>>
       ELSE /\ opened' = FALSE
            /\ actions' = <<>>
            /\ origins' = <<>>
            /\ lastOp' = LiveRecord("close", Rebound(lastOp.ref, actions))
    /\ UNCHANGED <<name, interceptors, hung, openNames>>

\* A direct call of _register_action, seen by the holder of a reference.
LiveRegisterAction ==
    /\ NumDirect < MaxDirect
    /\ \E r \in DirectRegistrations :
         LET st == _register_action(Registry, r.name, r.schema, r.action)
         IN  /\ actions' = st.actions
             /\ origins' = st.origins
             /\ lastOp' = LiveRecord("_register_action", Held(lastOp.ref, st.actions))
    /\ UNCHANGED <<name, opened, interceptors, hung, openNames>>

NextLive ==
    \/ GetActions
    \/ LiveOpen
    \/ LiveClose
    \/ LiveRegisterAction

SpecLive == InitLive /\ [][NextLive]_vars

(* ------------------------------------------------------ register() raises *)

MaxLeftover == 6

\* register() that raises after its first k registrations returned.
RECURSIVE RegisterUntil(_, _, _)
RegisterUntil(st, i, k) ==
    IF i > k THEN st
    ELSE RegisterUntil(_register_action(st, RegisterRoutine[i].name,
                                        RegisterRoutine[i].schema,
                                        RegisterRoutine[i].action), i + 1, k)

\* open on a closed service whose register() raises partway: the exception
\* leaves open before `self.__opened = True`.
OpenRaises ==
    /\ ~hung
    /\ ~opened
    /\ \E k \in 0..(Len(RegisterRoutine) - 1) :
         /\ Len(actions) + k <= MaxLeftover
         /\ LET st == RegisterUntil(Registry, 1, k)
            IN  /\ actions' = st.actions
                /\ origins' = st.origins
                /\ hung' = st.hung
                /\ lastOp' = [OpRecord("open_raises") EXCEPT !.idx = k,
                                !.out = Some(Raise("Exception"))]
    /\ UNCHANGED <<name, opened, interceptors, openNames>>

NextFailure ==
    \/ open
    \/ close
    \/ OpenRaises

SpecFailure == Init /\ [][NextFailure]_vars

(* ------------------------------------------------------ interleaved opens *)

\* The two threads that call open on the same service.
Threads == {"t1", "t2"}

\* Where a thread is in open: about to read __opened ("check"), inside
\* register() about to make its i-th registration ("register"), about to
\* write __opened ("set"), or returned ("done").
At(at, i) == [at |-> at, i |-> i]

\* The positions of the threads and the number of register() calls begun.
ThreadRecord(pc, registers) == [op |-> "open", pc |-> pc, registers |-> registers]

InitThreads ==
    /\ name \in ServiceNames
    /\ opened = FALSE
    /\ actions = <<>>
    /\ interceptors = <<>>
    /\ hung = FALSE
    /\ origins = <<>>
    /\ lastOp = ThreadRecord([t \in Threads |-> At("check", 0)], 0)
    /\ openNames = None

\* `if self.__opened: return`.
CheckOpened(t) ==
    /\ lastOp.pc[t].at = "check"
    /\ IF opened
       THEN lastOp' = [lastOp EXCEPT !.pc[t] = At("done", 0)]
       ELSE lastOp' = [lastOp EXCEPT !.pc[t] = At("register", 1),
                                     !.registers = @ + 1]
    /\ UNCHANGED <<name, opened, actions, origins, interceptors, hung, openNames>>

\* One _register_action call of the register() a thread is running.
RegisterNext(t) ==
    /\ lastOp.pc[t].at = "register"
    /\ LET i == lastOp.pc[t].i
           st == _register_action(Registry, RegisterRoutine[i].name,
                                  RegisterRoutine[i].schema, RegisterRoutine[i].action)
       IN  /\ actions' = st.actions
           /\ origins' = st.origins
           /\ lastOp' = [lastOp EXCEPT !.pc[t] =
                           IF i = Len(RegisterRoutine) THEN At("set", 0)
                           ELSE At("register", i + 1)]
    /\ UNCHANGED <<name, opened, interceptors, hung, openNames>>

\* `self.__opened = True`.
SetOpened(t) ==
    /\ lastOp.pc[t].at = "set"
    /\ opened' = TRUE
    /\ lastOp' = [lastOp EXCEPT !.pc[t] = At("done", 0)]
    /\ UNCHANGED <<name, actions, origins, interceptors, hung, openNames>>

NextThreads ==
    \/ \E t \in Threads : CheckOpened(t)
    \/ \E t \in Threads : RegisterNext(t)
    \/ \E t \in Threads : SetOpened(t)

SpecThreads == InitThreads /\ [][NextThreads]_vars

(* ---------------------------------------------------------------- claims *)

\* The externally visible name the specification gives an action of raw name n.
VisibleName(n) == IF name = None THEN n ELSE name.v \o "." \o n

\* The visible names of the actions of the registration routine, in order.
RoutineNames == [i \in 1..Len(RegisterRoutine) |-> VisibleName(RegisterRoutine[i].name)]

\* A step that is an open call directly after a close call that closed an open service.
CloseThenOpen == lastOp.op = "close" /\ lastOp.opened0 /\ lastOp'.op = "open"

\* C1: open on a service that is already open does not call register() again:
\* the action list, and so the number of its entries, is the same after the
\* second open as before it, and the service stays open.
C1_OpenIdempotent ==
    [][(opened /\ lastOp'.op = "open") =>
          (~lastOp'.registered /\ actions' = actions /\ opened')]_vars

C1_Witness ==
    /\ lastOp.op = "open" /\ lastOp.opened0 /\ ~lastOp.registered
    /\ opened /\ Len(actions) = Len(RegisterRoutine)

\* C2 as stated: close followed by open leaves the service open, with no
\* interceptors, and with an action list of exactly the names, order and count
\* it had after the open before the close.
C2_RoundTripAsStated ==
    [][CloseThenOpen =>
          (opened' /\ interceptors' = <<>> /\ Names(actions') = openNames.v.names)]_vars

\* C2 as amended: close followed by open leaves the service open, with no
\* interceptors, and with exactly the actions of the registration routine, in
\* its order; that is the list after the earlier open whenever that open
\* started from an empty action list.
C2_RoundTrip ==
    [][CloseThenOpen =>
          /\ opened' /\ ~hung'
          /\ interceptors' = <<>>
          /\ Names(actions') = RoutineNames
          /\ (openNames.v.fromEmpty => Names(actions') = openNames.v.names)]_vars

C2_Witness ==
    /\ lastOp.op = "open" /\ lastOp.afterClose /\ lastOp.discarded > 0
    /\ opened /\ interceptors = <<>> /\ Names(actions) = RoutineNames
    /\ openNames.v.fromEmpty

\* C3 as stated: in every state in which the service is closed, the action
\* list and the interceptor list are empty.
C3_ClosedIsEmptyAsStated ==
    ~opened => (actions = <<>> /\ interceptors = <<>>)

\* C3 as amended: a new service is closed with both lists empty, and every
\* close call on an open service leaves it closed with both lists empty;
\* registration calls made on a closed service add to the lists.
C3_CloseEmpties ==
    /\ (~opened /\ actions = <<>> /\ interceptors = <<>>)
    /\ [][(opened /\ lastOp'.op = "close") =>
             (~opened' /\ actions' = <<>> /\ interceptors' = <<>>)]_vars

C3_Witness ==
    /\ lastOp.op = "close" /\ lastOp.opened0 /\ lastOp.n0 > 0 /\ lastOp.i0 > 0
    /\ ~opened /\ actions = <<>> /\ interceptors = <<>>

\* C4: every stored action registered with raw name n has cmd
\* service_name + "." + n when the service name is not None, and n when it is None.
C4_ActionCmd ==
    /\ Len(origins) = Len(actions)
    /\ \A i \in 1..Len(actions) : actions[i].cmd = VisibleName(origins[i].name)

C4_Witness ==
    /\ lastOp.op = "_register_action_with_auth"
    /\ name = Some("") /\ ~hung
    /\ actions[Len(actions)].cmd = ".echo"

\* The positions of a trace at which the underlying handler was invoked.
HandlerEvents(trace) == {i \in 1..Len(trace) : trace[i].ev = "handler"}

\* Whether the merged parameters of req fail the schema.
FailsSchema(schema, req) == validate_and_return_exception(schema, req) # None

\* The latest call is a request to a stored action; Target is how it was registered.
Dispatched == lastOp.op = "dispatch"

Target == origins[lastOp.idx]

\* C5: for an action registered with a non-null schema, a request whose merged
\* parameters fail the schema never causes the underlying handler to be invoked.
C5_InvalidNeverReachesHandler ==
    (/\ Dispatched
     /\ Target.schema # None /\ lastOp.req # None
     /\ FailsSchema(Target.schema, lastOp.req))
    => HandlerEvents(lastOp.trace) = {}

C5_Witness ==
    /\ Dispatched
    /\ Target.method = "_register_action" /\ Target.name = "create_dummy"
    /\ lastOp.req = Request({}, Some({}))
    /\ FailsSchema(Target.schema, lastOp.req)
    /\ lastOp.trace = <<Event("validate", "schema", lastOp.req)>>

\* C6: when schema validation fails, the validation wrapper does not raise: it
\* returns the response composed from the validation error, whose status is the
\* error's status, or 500 when the error has none.
C6_ValidationErrorReturned ==
    (/\ Dispatched
     /\ Target.method = "_register_action"
     /\ Target.schema # None /\ lastOp.req # None
     /\ FailsSchema(Target.schema, lastOp.req))
    => /\ lastOp.out.v.kind = "return"
       /\ lastOp.out.v.value.kind = "response"
       /\ lastOp.out.v.value.status =
            (IF Target.schema.v.errStatus = None THEN 500
             ELSE Target.schema.v.errStatus.v)
       /\ lastOp.out.v.value.body["code"] = Some("INVALID_DATA")
       /\ lastOp.out.v.value.headers = [ContentType |-> "application/json"]

C6_Witness ==
    /\ Dispatched
    /\ Target.method = "_register_action" /\ Target.name = "strict"
    /\ Target.schema.v.errStatus = None
    /\ lastOp.req = Request({}, Some({"dummy"}))
    /\ lastOp.out.v.kind = "return"
    /\ lastOp.out.v.value.status = 500

\* C7: when the schema is None, or validation succeeds, the validation wrapper
\* invokes the inner handler exactly once, with the request it received, and
\* returns the handler's result unchanged (an echo handler registered with no
\* schema returns the request body it was given).
C7_ValidPassesThrough ==
    (/\ Dispatched
     /\ Target.method = "_register_action"
     /\ \/ Target.schema = None
        \/ (lastOp.req # None /\ ~FailsSchema(Target.schema, lastOp.req)))
    => /\ Cardinality(HandlerEvents(lastOp.trace)) = 1
       /\ \A i \in HandlerEvents(lastOp.trace) :
             lastOp.trace[i] = Event("handler", Target.action, lastOp.req)
       /\ lastOp.out = Some(HandlerOutcome(Target.action, lastOp.req))
       /\ (/\ Target.action = "echo" /\ Target.schema = None
           /\ lastOp.req # None /\ lastOp.req.v.json # None)
          => lastOp.out.v = Return([kind |-> "body", body |-> lastOp.req.v.json])

C7_Witness ==
    /\ Dispatched
    /\ Target.method = "_register_action" /\ Target.name = "strict"
    /\ lastOp.req = Request({"id"}, Some({"dummy_id"}))
    /\ lastOp.trace = <<Event("validate", "schema", lastOp.req),
                        Event("handler", "echo", lastOp.req)>>
    /\ lastOp.out.v = Return([kind |-> "body", body |-> Some({"dummy_id"})])

\* An interceptor wrapped around a handler value: the interceptor is called
\* with the request and next.
Intercepted(interceptor, next) ==
    [kind |-> "interceptor", interceptor |-> interceptor, next |-> next]

\* C8: with interceptors registered in the order [A, B] before an action is
\* registered, the wrapped handler of that action is A around B around the
\* base handler: a request runs A, then B if A calls next, then the base
\* handler if B calls next.
C8_InterceptorOrder ==
    (lastOp.op = "_register_action" /\ interceptors = <<"A", "B">>)
    => /\ ~hung
       /\ Len(actions) = lastOp.n0 + 1
       /\ actions[Len(actions)].action =
            Lambda(Intercepted("A", Intercepted("B",
                _apply_validation(lastOp.reg.v.schema, Handler(lastOp.reg.v.action)))))

\* C9: every call of _register_action or _register_action_with_auth returns
\* and appends exactly one entry to the action list, whatever the number of
\* interceptors registered before it.
C9_RegistrationAppendsOne ==
    (lastOp.op \in {"_register_action", "_register_action_with_auth"})
    => (~hung /\ Len(actions) = lastOp.n0 + 1)

\* C10: for an action registered with _register_action_with_auth, when the
\* authorize function returns without calling next, schema validation is not
\* run, the action handler is not invoked, and the wrapped handler returns
\* the result of authorize.
C10_DeniedStopsAtAuthorize ==
    (/\ Dispatched
     /\ Target.method = "_register_action_with_auth"
     /\ Target.authorize = "deny")
    => /\ lastOp.trace = <<Event("authorize", "deny", lastOp.req)>>
       /\ lastOp.out = Some(Return(Unauthorized))

C10_Witness ==
    /\ Dispatched
    /\ Target.method = "_register_action_with_auth" /\ Target.authorize = "deny"
    /\ Target.name = "strict"
    /\ lastOp.req = Request({}, Some({}))
    /\ FailsSchema(Target.schema, lastOp.req)
    /\ lastOp.trace = <<Event("authorize", "deny", lastOp.req)>>
    /\ lastOp.out = Some(Return(Unauthorized))

\* The positions of a trace at which an event of kind ev was observed.
EventsOf(trace, ev) == {i \in 1..Len(trace) : trace[i].ev = ev}

\* An authorization function wrapped around a handler value: it is called with
\* the request and next.
Authorized(authorize, next) ==
    [kind |-> "authorize", authorize |-> authorize, next |-> next]

\* The handler value the interceptors ints, first registered outermost, make
\* around base.
RECURSIVE Chain(_, _)
Chain(ints, base) ==
    IF ints = <<>> THEN base ELSE Intercepted(Head(ints), Chain(Tail(ints), base))

\* C11: for an action registered with _register_action_with_auth, when the
\* authorize function calls next(request) once, authorize is not entered
\* again: the call goes on to schema validation and then to the action
\* handler, which runs exactly once, and the call ends with its result.
C11_AllowProceedsOnce ==
    (/\ Dispatched
     /\ Target.method = "_register_action_with_auth"
     /\ Target.authorize = "allow"
     /\ \/ Target.schema = None
        \/ (lastOp.req # None /\ ~FailsSchema(Target.schema, lastOp.req)))
    => /\ Cardinality(EventsOf(lastOp.trace, "authorize")) = 1
       /\ Cardinality(HandlerEvents(lastOp.trace)) = 1
       /\ lastOp.trace =
            <<Event("authorize", "allow", lastOp.req)>>
            \o (IF Validates(Target.schema, lastOp.req)
                THEN <<Event("validate", "schema", lastOp.req)>> ELSE <<>>)
            \o <<Event("handler", Target.action, lastOp.req)>>
       /\ lastOp.out = Some(HandlerOutcome(Target.action, lastOp.req))

\* C12: for an action registered with _register_action_with_auth while
\* interceptors are registered, the authorization check is the outermost
\* layer of the stored handler: it runs before every interceptor, and none
\* runs when it does not call next.
C12_AuthorizeOutermost ==
    (lastOp.op = "_register_action_with_auth" /\ interceptors # <<>>)
    => /\ ~hung
       /\ Len(actions) = lastOp.n0 + 1
       /\ actions[Len(actions)].action =
            Lambda(Authorized(lastOp.authorize,
                Chain(interceptors,
                      _apply_validation(lastOp.reg.v.schema,
                                        Handler(lastOp.reg.v.action)))))

\* C13: wrapping happens once, at registration: a request to an action never
\* invokes an interceptor registered after that action, and every action
\* registered after an interceptor is stored with that interceptor wrapped
\* around it, so that its requests invoke it.
C13_WrappedAtRegistration ==
    /\ (Dispatched /\ interceptors # <<>>)
       => EventsOf(lastOp.trace, "interceptor") = {}
    /\ (/\ lastOp.op \in {"_register_action", "_register_action_with_auth"}
        /\ interceptors # <<>>)
       => /\ ~hung
          /\ Len(actions) = lastOp.n0 + 1
          /\ \E base \in {_apply_validation(lastOp.reg.v.schema,
                                            Handler(lastOp.reg.v.action)),
                          Authorized(lastOp.authorize,
                              _apply_validation(lastOp.reg.v.schema,
                                                Handler(lastOp.reg.v.action)))} :
                actions[Len(actions)].action = Lambda(Chain(interceptors, base))

\* The error with only status = 404 set.
OnlyStatus404 ==
    Some([k \in ErrorFields |-> IF k = "status" THEN Some(404) ELSE None])

C18_StatusAndContentType ==
    (lastOp.op = "_compose_error") =>
        /\ lastOp.out.kind = "response"
        /\ lastOp.out.status = lastOp.out.body["status"].v
        /\ lastOp.out.headers = [ContentType |-> "application/json"]

C18_Witness ==
    /\ lastOp.op = "_compose_error"
    /\ lastOp.error # None
    /\ lastOp.out.status = 400
    /\ lastOp.out.headers.ContentType = "application/json"

\* The latest call is a call of a command action.
Invoked == lastOp.op = "invoke"

\* The call went into the except block: the command, or the conversion of
\* its result, raised.
FailurePath ==
    /\ lastOp.env.preamble = "return"
    /\ \/ lastOp.env.executes = "raise"
       \/ (Converts(lastOp.env.result) /\ lastOp.env.conv)

\* The exception the except block caught.
Caught ==
    IF lastOp.env.executes = "raise" THEN lastOp.env.error ELSE PlainException

\* C14: in every call of a command-set action in which the timing was
\* created, end_timing is called exactly once, as the last thing before the
\* action returns or raises, on every exit path: command success, command
\* failure, failure while converting the result, failure while composing the
\* error.
C14_EndTimingOnce ==
    (Invoked /\ EventsOf(lastOp.trace, "_instrument") # {})
    => /\ Cardinality(EventsOf(lastOp.trace, "end_timing")) = 1
       /\ lastOp.trace[Len(lastOp.trace)].ev = "end_timing"

C14_Witness ==
    /\ Invoked
    /\ FailurePath
    /\ lastOp.env.compose
    /\ lastOp.out.v.kind = "raise"
    /\ Cardinality(EventsOf(lastOp.trace, "end_timing")) = 1

\* C15: on the failure path of a command-set action (the command or the
\* conversion of its result raised an Exception) end_failure is called
\* exactly once, before the error is composed and before end_timing; on the
\* success path it is never called.
C15_EndFailureFirst ==
    Invoked =>
        IF FailurePath
        THEN /\ Cardinality(EventsOf(lastOp.trace, "end_failure")) = 1
             /\ EventsOf(lastOp.trace, "_compose_error") # {}
             /\ \A i \in EventsOf(lastOp.trace, "end_failure") :
                  \A j \in EventsOf(lastOp.trace, "_compose_error")
                           \cup EventsOf(lastOp.trace, "end_timing") : i < j
        ELSE EventsOf(lastOp.trace, "end_failure") = {}

C15_Witness ==
    /\ Invoked
    /\ FailurePath
    /\ ~lastOp.env.compose
    /\ lastOp.env.executes = "return"
    /\ Cardinality(EventsOf(lastOp.trace, "end_failure")) = 1

\* C16 as stated: any exception raised by command.execute or by the result
\* conversion is caught inside the action, which returns the error composer's
\* response for it: no exception propagates to the caller.
C16_NothingPropagatesAsStated ==
    (Invoked /\ (FailurePath \/ lastOp.env.executes = "exit"))
    => /\ lastOp.out.v.kind = "return"
       /\ lastOp.out.v = Return(CloudFunction_compose_error(Caught))

\* C16: any Exception raised by command.execute or by the result conversion
\* is caught inside the action and reported with end_failure; when composing
\* the error returns, the action returns the composer's response and no
\* exception propagates; when composing the error itself raises, that
\* exception propagates to the caller after end_timing. An exception that is
\* not an Exception (SystemExit) is not caught: it propagates after
\* end_timing.
C16_CaughtAndComposed ==
    /\ (Invoked /\ FailurePath)
       => /\ EventsOf(lastOp.trace, "end_failure") # {}
          /\ IF lastOp.env.compose
             THEN /\ lastOp.out.v.kind = "raise"
                  /\ lastOp.trace[Len(lastOp.trace)].ev = "end_timing"
             ELSE /\ lastOp.out.v.kind = "return"
                  /\ lastOp.out.v = Return(CloudFunction_compose_error(Caught))
    /\ (Invoked /\ lastOp.env.executes = "exit")
       => /\ lastOp.out.v = Raise("SystemExit")
          /\ lastOp.trace[Len(lastOp.trace)].ev = "end_timing"

C16_Witness ==
    /\ Invoked
    /\ lastOp.env.executes = "raise"
    /\ lastOp.env.error = NotFoundException
    /\ ~lastOp.env.compose
    /\ lastOp.out.v.kind = "return"
    /\ lastOp.out.v.value.status = 404

\* C19: after register() on a command set [c0..cn-1] exactly n actions are
\* registered, one per command in the order of the command set, each with no
\* schema, and a call of the action registered for ci executes ci and no
\* other command.
C19_OneActionPerCommand ==
    /\ lastOp.op \in {"register", "invoke"} =>
         /\ Len(actions) = Len(lastOp.commands)
         /\ \A i \in 1..Len(actions) :
              /\ actions[i].cmd = lastOp.commands[i]
              /\ actions[i].schema = None
    /\ (Invoked /\ lastOp.env.preamble = "return") =>
         /\ Cardinality(EventsOf(lastOp.trace, "execute")) = 1
         /\ \A i \in EventsOf(lastOp.trace, "execute") :
              lastOp.trace[i].who = lastOp.commands[lastOp.idx]

C19_Witness ==
    /\ Invoked
    /\ lastOp.commands = DummyCommandSet
    /\ Len(actions) = 5
    /\ lastOp.idx = 2
    /\ \E i \in EventsOf(lastOp.trace, "execute") :
         lastOp.trace[i].who = "get_dummy_by_id"

\* C20: a command result of None yields an empty body with status 204; a
\* result that is an int, str, dict, tuple, list, bytes, float or framework
\* response is returned unchanged; any other result is converted with to_dict
\* if it has one, else with to_json if it has one, else with the generic JSON
\* serialization.
C20_ResultNormalization ==
    (Invoked /\ lastOp.env.preamble = "return" /\ lastOp.env.executes = "return"
     /\ ~FailurePath)
    => LET res == lastOp.env.result
           out == lastOp.out.v
       IN  /\ out.kind = "return"
           /\ IF res = NoneResult
              THEN out.value = [type |-> "tuple", body |-> "", status |-> 204]
              ELSE IF res.type \in PassThroughTypes THEN out.value = res
              ELSE /\ out.value.type = "converted"
                   /\ out.value.via =
                        (IF res.to_dict THEN "to_dict"
                         ELSE IF res.to_json THEN "to_json"
                         ELSE "JsonConverter.to_json")

C20_Witness ==
    /\ Invoked
    /\ ~FailurePath
    /\ lastOp.env.result = Value("object", TRUE, TRUE, "")
    /\ lastOp.out.v.kind = "return"
    /\ lastOp.out.v.value.type = "converted"
    /\ lastOp.out.v.value.via = "to_dict"

\* C21: for an action registered with _register_action with a schema while
\* interceptors are registered, the stored handler has every interceptor
\* around the validation wrapper: each interceptor runs before the schema is
\* validated, and one that does not call next keeps validation and the
\* handler from running.
C21_InterceptorsBeforeValidation ==
    (/\ lastOp.op = "_register_action"
     /\ interceptors # <<>>
     /\ lastOp.reg # None
     /\ lastOp.reg.v.schema # None)
    => /\ ~hung
       /\ Len(actions) = lastOp.n0 + 1
       /\ LET stored == actions[Len(actions)].action
              validation == _apply_validation(lastOp.reg.v.schema,
                                              Handler(lastOp.reg.v.action))
          IN  /\ stored # Lambda(validation)
              /\ stored = Lambda(Chain(interceptors, validation))

\* The interceptors of the layers of a handler value, outermost first.
RECURSIVE Layers(_)
Layers(f) ==
    IF f.kind = "interceptor" THEN <<f.interceptor>> \o Layers(f.next) ELSE <<>>

\* C22: for k distinct registered interceptors, the handler stored for an
\* action registered afterwards has k layers around the base handler, each
\* bound to its own interceptor: a request invokes every interceptor exactly
\* once and the base handler exactly once.
C22_EachInterceptorOnce ==
    (lastOp.op = "_register_action" /\ lastOp.i0 > 0)
    => /\ ~hung
       /\ Len(actions) = lastOp.n0 + 1
       /\ LET layers == Layers(actions[Len(actions)].action.cell)
          IN  /\ Len(layers) = Len(interceptors)
              /\ \A k \in 1..Len(interceptors) :
                   Cardinality({j \in 1..Len(layers) : layers[j] = interceptors[k]}) = 1

\* C23: the sequence returned by get_actions() is live: a reference obtained
\* at any time shows, at every later time, exactly the current actions of the
\* service in registration order, later registrations included, and is empty
\* once close has run.
C23_GetActionsLive ==
    (lastOp.ref # None) => lastOp.ref.v.list = actions

\* C24: when register() raises partway through open, the service stays closed
\* and holds no action of the failed attempt, so that a later open that
\* succeeds leaves exactly one entry per action of the registration routine.
C24_FailedOpenLeavesNothing ==
    /\ (lastOp.op = "open_raises") => (~opened /\ Len(actions) = lastOp.n0)
    /\ opened => Names(actions) = RoutineNames

\* C25: when two open calls on a closed service are interleaved, register()
\* is executed only once, and each action of the registration routine is in
\* the action list exactly once when both calls have returned.
C25_InterleavedOpensRegisterOnce ==
    (\A t \in Threads : lastOp.pc[t].at = "done")
    => /\ opened
       /\ lastOp.registers = 1
       /\ Names(actions) = RoutineNames

\* C26: a call of the wrapped handler of a registered action, whether it
\* succeeds, fails validation or fails in the handler, leaves the open flag,
\* the action list and the interceptor list as they were.
C26_DispatchLeavesRegistry ==
    [][(lastOp'.op = "dispatch")
        => (opened' = opened /\ actions' = actions /\ interceptors' = interceptors)]_vars

C26_Witness ==
    /\ Dispatched
    /\ opened
    /\ Target.schema # None
    /\ lastOp.out.v = Raise("AttributeError")
    /\ HandlerEvents(lastOp.trace) # {}
    /\ Len(actions) = lastOp.n0

====
